---- MODULE Spec2Model ----
(***************************************************************************)
(* Voting and ranking core of the link aggregator.                         *)
(*                                                                         *)
(* The model follows the Express/Mongoose back end: the vote, submit and   *)
(* list handlers of the links router, the register handler of the users    *)
(* router, the User and Link collections they read and write, and the      *)
(* retry loop of the client's fetchApi.  It follows the React clients too: *)
(* the AuthProvider (SpecProvider) and the Firestore variant of the App,   *)
(* whose votes are Firestore transactions (SpecFire).                      *)
(*                                                                         *)
(* The handlers are written over a Link model.  Spec, SpecSeq, SpecRetry,  *)
(* SpecFetch, SpecAuth, SpecCore, SpecGate and SpecFeed run them on Link   *)
(* documents that carry                                                    *)
(* the fields the links router reads and writes (RouterLink: url, user,    *)
(* username, status, score, createdAt); SpecSchema runs them on the Link   *)
(* model the repository declares (LinkSchema: url, submittedBy, votes,     *)
(* status, createdAt).  The approve and reject operations are not part of  *)
(* the source and follow the specification of the Moderation Gate.         *)
(*                                                                         *)
(* Every `await` of the vote and register handlers is one step: between    *)
(* two steps of one request, steps of other requests may run.  A storage   *)
(* call of the vote or the listing may throw (connection loss, timeout); a *)
(* call that throws has no effect on the collection and sends the handler  *)
(* to its catch block.                                                     *)
(***************************************************************************)
EXTENDS Integers, Sequences, FiniteSets, Bags, TLC

\* Bounds of the model: the users that register, the links that are
\* submitted, the vote requests let past the link lookup, and the links of a
\* collection that GET /api/links is asked to rank.
MaxUsers == 2
MaxLinks == 1
MaxCalls == 2
MaxFeedLinks == 3
\* registration requests in a behaviour of the users router alone
MaxRegistrations == 3
\* the users and the links of the Firestore clients
MaxFireUsers == 3
MaxFireLinks == 1

\* fetchApi: const MAX_RETRIES = 3
MAX_RETRIES == 3

VARIABLES
    users,    \* the User collection: user id -> document
    links,    \* the Link collection: link id -> document
    calls,    \* the vote calls in progress, a bag: equal calls are told apart by none
    out,      \* what the step just taken answered, NoOut when it answered nothing
    issued,   \* the number of vote requests let past the link lookup so far
    counted,  \* history: per user and link, the number of 200 answers to a vote
    now,      \* Date.now(), in ticks
    feed,     \* the last answer of GET /api/links
    env,      \* process.env.JWT_SECRET: when the routers load, and at a request
    req,      \* the request the step just taken took through the auth middleware
    fireLinks,      \* the links collection of Firestore: link id -> document
    txns,           \* the handleVote calls of the Firestore clients in progress, a bag
    isVotingState,  \* per Firestore client (user), the state isVotingState of App
    provider        \* the state of an AuthProvider and its calls in progress

vars == <<users, links, calls, out, issued, counted, now, feed, env, req,
          fireLinks, txns, isVotingState, provider>>

\* The state of the React clients.
clientVars == <<fireLinks, txns, isVotingState, provider>>

\* The state of the Express server and of the requests to it.
serverVars == <<users, links, calls, out, issued, counted, now, feed, env, req>>


UserIds == 1..MaxUsers
LinkIds == 1..MaxLinks

\* A well-formed ObjectId that names no document of the collection.
GhostId == 0
\* A string that is not a well-formed ObjectId.
BadId == -1

\* What findById returns when no document matches.
Null == [exists |-> FALSE]

Registered == {u \in DOMAIN users : users[u].exists}
Submitted == {l \in DOMAIN links : links[l].exists}

\* A faulty variant of the id check: it lets every string through.
IsValid_Any(id) == TRUE

\* mongoose.Types.ObjectId.isValid(linkId)
IsValid(id) == id # BadId

\* Link.findById(linkId)
FindLinkById(id) == IF id \in Submitted THEN links[id] ELSE Null

\* User.findById(userId)
FindUserById(id) == IF id \in Registered THEN users[id] ELSE Null

\* res.status(s).json({msg})
Resp(status, msg) == [status |-> status, msg |-> msg]
NoResp == Resp(0, "")

RECURSIVE Count(_, _)
\* the number of occurrences of x in the sequence s
Count(x, s) == IF s = <<>> THEN 0
               ELSE (IF Head(s) = x THEN 1 ELSE 0) + Count(x, Tail(s))

\* The step answered no request.
NoOut == [op |-> "none"]

\* process.env.JWT_SECRET without a value
NoSecret == ""
\* The value a deployment gives it.
Secrets == {"s3cret"}

\* server.js requires the routers first and calls dotenv.config() next: a
\* value of the process environment is there when the routers load and at
\* every request, a value of the .env file at the requests only.
EnvInProcess(secret) == [atLoad |-> secret, atRequest |-> secret]
EnvInDotenv(secret) == [atLoad |-> NoSecret, atRequest |-> secret]
EnvUnset == [atLoad |-> NoSecret, atRequest |-> NoSecret]
Envs == {EnvInProcess(s) : s \in Secrets} \cup {EnvInDotenv(s) : s \in Secrets} \cup {EnvUnset}

\* The step took no request through the auth middleware.
NoReq == [op |-> "none"]

\* What a step leaves of the state that is not a collection's: the
\* environment of the process stays, and the step took no request through the
\* auth middleware when it is not the arrival of one.
Elsewhere == env' = env /\ req' = NoReq /\ UNCHANGED clientVars

\* No AuthProvider is mounted.
NoProvider == [mounted |-> FALSE]

\* No Firestore client has done anything.
FireUserIds == 1..MaxFireUsers
FireIds == 1..MaxFireLinks

InitClients ==
    /\ fireLinks = [l \in FireIds |-> Null]
    /\ txns = EmptyBag
    /\ isVotingState = [u \in FireUserIds |-> [l \in FireIds |-> FALSE]]

\* The collections are empty and no request has come.
InitStore ==
    /\ users = [u \in UserIds |-> Null]
    /\ links = [l \in LinkIds |-> Null]
    /\ calls = EmptyBag
    /\ out = NoOut
    /\ issued = 0
    /\ counted = [u \in UserIds |-> [l \in LinkIds |-> 0]]
    /\ now = 0
    /\ feed = <<>>
    /\ req = NoReq

\* The server runs with JWT_SECRET set in its process environment.
Init ==
    /\ InitStore
    /\ env = EnvInProcess("s3cret")
    /\ InitClients
    /\ provider = NoProvider

----------------------------------------------------------------------------
(* POST /api/users/register *)

NewUser(p) == [exists |-> TRUE, username |-> p, email |-> p, upvotedLinks |-> <<>>]

\* Person p registers with their own username and email.  The ids are opaque:
\* the persons are numbered in the order of their first registration.
Register(p) ==
    /\ p <= Cardinality(Registered) + 1
    /\ IF users[p].exists
         THEN /\ users' = users
              /\ out' = [op |-> "register", res |-> Resp(400, "User already exists")]
         ELSE /\ users' = [users EXCEPT ![p] = NewUser(p)]
              /\ out' = [op |-> "register", res |-> Resp(200, "token")]
    /\ UNCHANGED <<links, calls, issued, counted, now, feed>>
    /\ Elsewhere

\* The handler step by step, as concurrent registrations see it.  A request
\* carries any username and any email; the calls past the lookup wait in
\* `calls` for their save.
UserExists == Resp(400, "User already exists")
RegisterServerError == Resp(500, "Server error")
TokenSent == Resp(200, "token")

RegisterAnswer(username, email, resp) ==
    [op |-> "register", username |-> username, email |-> email, res |-> resp]

\* User.findOne({ email })
FindUserByEmail(email) == {u \in Registered : users[u].email = email}

\* The unique indexes of UserSchema turn down a save() whose username or
\* email a stored user holds: it throws the duplicate key error.
SaveUserConflicts(username, email) ==
    \E u \in Registered : users[u].username = username \/ users[u].email = email

\* The request arrives and runs to the end of User.findOne.
RegisterStart(username, email) ==
    /\ issued < MaxRegistrations
    /\ issued' = issued + 1
    /\ IF FindUserByEmail(email) # {}
         THEN /\ out' = RegisterAnswer(username, email, UserExists)
              /\ calls' = calls
         ELSE /\ out' = NoOut
              /\ calls' = calls (+) SetToBag({[pc |-> "saveUser", username |-> username,
                                               email |-> email]})
    /\ UNCHANGED <<users, links, counted, now, feed>>
    /\ Elsewhere

\* new User({ username, email, password }), user.save() and the answer
RegisterSave(call) ==
    /\ call.pc = "saveUser"
    /\ calls' = calls (-) SetToBag({call})
    /\ IF SaveUserConflicts(call.username, call.email)
         THEN /\ users' = users
              /\ out' = RegisterAnswer(call.username, call.email, RegisterServerError)
         ELSE /\ users' = [users EXCEPT ![Cardinality(Registered) + 1] =
                              [NewUser(call.username) EXCEPT !.email = call.email]]
              /\ out' = RegisterAnswer(call.username, call.email, TokenSent)
    /\ UNCHANGED <<links, issued, counted, now, feed>>
    /\ Elsewhere

----------------------------------------------------------------------------
(* The Link model, and POST /api/links *)

\* The Link model of the repository: the paths LinkSchema declares that a
\* handler gives or reads, those it requires and its defaults (createdAt
\* defaults to Date.now).
LinkSchema ==
    [paths |-> {"url", "submittedBy", "votes", "status", "createdAt"},
     required |-> {"url", "submittedBy"},
     defaults |-> [votes |-> 0, status |-> "pending"]]

\* The Link model the links router is written for: the paths it gives to
\* new Link(...), sorts by, increments and reads back.
RouterLink ==
    [paths |-> {"url", "user", "username", "status", "score", "createdAt"},
     required |-> {"url"},
     defaults |-> [status |-> "pending"]]

\* new Model(fields) at time t: the schema is strict, so a field it does not
\* declare is dropped, and a declared path that is not given takes its default.
Cast(model, fields, t) ==
    LET given == DOMAIN fields \cap model.paths
    IN  [k \in {"exists", "createdAt"} \cup given \cup DOMAIN model.defaults |->
            IF k = "exists" THEN TRUE
            ELSE IF k \in given THEN fields[k]
            ELSE IF k = "createdAt" THEN t
            ELSE model.defaults[k]]

\* The validation save() runs first: every required path has a value.
IsValidDoc(model, doc) == model.required \subseteq DOMAIN doc

\* A string is numbered in the order of its first submission and keeps its
\* number as the id of its link; 0 stands for a missing or empty url, k > 0
\* for a string that parses as a URL, -k for one that does not.
LinkIdOf(url) == IF url < 0 THEN 0 - url ELSE url
IsUrl(url) == url > 0

\* new Link({ url, user: userId, username: user.username, status: 'pending', score: 0 })
NewLink(model, url, userId, t) ==
    Cast(model,
         [url |-> url, user |-> userId, username |-> users[userId].username,
          status |-> "pending", score |-> 0],
         t)

\* Date.now() at a submission: the tick of the latest submission, or a later
\* one.  Only the order of the timestamps is ever read, so the first
\* submission's tick is fixed.
SubmitTimes == IF Submitted = {} THEN {now} ELSE {now, now + 1}

UrlRequired == Resp(400, "URL is required")
SubmitUserNotFound == Resp(404, "User not found")
\* the answer of the catch block to any error save() throws
SubmitServerError == Resp(500, "Server Error during link submission")
LinkSaved == Resp(200, "")

\* What a read of a path gives on a document that does not hold it.
Undefined == -2

\* doc.path
Get(doc, path) == IF path \in DOMAIN doc THEN doc[path] ELSE Undefined

\* res.json({ id: link._id, url: link.url, status: link.status, username: link.username })
SubmitBody(id, doc) ==
    [id |-> id, url |-> Get(doc, "url"), status |-> Get(doc, "status"),
     username |-> Get(doc, "username")]

NoBody == [id |-> Undefined]

SubmitAnswer(userId, url, resp, body) ==
    [op |-> "submit", u |-> userId, url |-> url, res |-> resp, body |-> body]

\* A save() that writes to a collection whose unique index holds the url already
\* throws the duplicate key error.
SaveConflicts(url) == links[LinkIdOf(url)].exists

\* The handler on the Link model `model`.  Its two awaits are one step: the
\* user it looks up cannot go away, and save() validates and inserts at once.
SubmitArrives(model, userId, url) ==
    LET id == LinkIdOf(url)
    IN  /\ id <= Cardinality(Submitted) + 1
        /\ (id \in Submitted) => links[id].url = url
        /\ IF url = 0
             THEN /\ UNCHANGED <<links, now>>
                  /\ out' = SubmitAnswer(userId, url, UrlRequired, NoBody)
           ELSE IF ~FindUserById(userId).exists
             THEN /\ UNCHANGED <<links, now>>
                  /\ out' = SubmitAnswer(userId, url, SubmitUserNotFound, NoBody)
           ELSE \E t \in SubmitTimes :
                  LET doc == NewLink(model, url, userId, t)
                  IN  IF ~IsValidDoc(model, doc) \/ SaveConflicts(url)
                        THEN /\ UNCHANGED <<links, now>>
                             /\ out' = SubmitAnswer(userId, url, SubmitServerError, NoBody)
                        ELSE /\ now' = t
                             /\ links' = [links EXCEPT ![id] = doc]
                             /\ out' = SubmitAnswer(userId, url, LinkSaved,
                                                    SubmitBody(id, doc))
        /\ UNCHANGED <<users, calls, issued, counted, feed>>

\* POST /api/links of a client whose token the auth middleware lets pass.
SubmitLinkOn(model, userId, url) == SubmitArrives(model, userId, url) /\ Elsewhere

SubmitLink(userId, url) == SubmitLinkOn(RouterLink, userId, url)

\* POST /api/links of the earlier links router, on the Link model `model`:
\* new Link({ url, submittedBy: req.user.id }), save, and no check of its own.
PostServerError == Resp(500, "Server error")
LinkSubmitted == Resp(200, "Link submitted successfully.")

PostAnswer(userId, url, resp) == [op |-> "post", u |-> userId, url |-> url, res |-> resp]

PostLinkOn(model, userId, url) ==
    LET id == LinkIdOf(url)
    IN  /\ id <= Cardinality(Submitted) + 1
        /\ (id \in Submitted) => links[id].url = url
        /\ \E t \in SubmitTimes :
              LET fields == IF url = 0 THEN [submittedBy |-> userId]
                            ELSE [url |-> url, submittedBy |-> userId]
                  doc == Cast(model, fields, t)
              IN  IF ~IsValidDoc(model, doc) \/ SaveConflicts(url)
                    THEN /\ UNCHANGED <<links, now>>
                         /\ out' = PostAnswer(userId, url, PostServerError)
                    ELSE /\ now' = t
                         /\ links' = [links EXCEPT ![id] = doc]
                         /\ out' = PostAnswer(userId, url, LinkSubmitted)
        /\ UNCHANGED <<users, calls, issued, counted, feed>>
        /\ Elsewhere

----------------------------------------------------------------------------
(* Moderation Gate: approve(linkId), reject(linkId) *)

Moderate(l, status) ==
    /\ links[l].exists
    /\ links[l].status = "pending"
    /\ links' = [links EXCEPT ![l].status = status]
    /\ out' = NoOut
    /\ UNCHANGED <<users, calls, issued, counted, now, feed>>
    /\ Elsewhere

Approve(l) == Moderate(l, "approved")
Reject(l) == Moderate(l, "rejected")

\* A faulty variant of the gate: it moves a link from any status.
MayTransition_Any(from) == TRUE

\* The state machine of the gate: pending -[approve]-> approved,
\* pending -[reject]-> rejected, and no transition from another status.
MayTransition(from) == from = "pending"

InvalidState == Resp(409, "InvalidStateError")
Moderated == Resp(200, "")

GateAnswer(l, status, resp) == [op |-> "moderate", l |-> l, to |-> status, res |-> resp]

\* approve(linkId) or reject(linkId) as a curator calls it on a link of any
\* status, with its answer.
ModerateCall(l, status) ==
    /\ links[l].exists
    /\ IF MayTransition(links[l].status)
         THEN /\ links' = [links EXCEPT ![l].status = status]
              /\ out' = GateAnswer(l, status, Moderated)
         ELSE /\ links' = links
              /\ out' = GateAnswer(l, status, InvalidState)
    /\ UNCHANGED <<users, calls, issued, counted, now, feed>>
    /\ Elsewhere

ApproveCall(l) == ModerateCall(l, "approved")
RejectCall(l) == ModerateCall(l, "rejected")

----------------------------------------------------------------------------
(* PATCH /api/links/:id/vote, and the client's fetchApi around it *)

InvalidId == Resp(400, "Invalid link ID format")
LinkNotFound == Resp(404, "Link not found")
Forbidden == Resp(403, "Only approved links can be voted on")
UserNotFound == Resp(404, "User not found")
DuplicateVote == Resp(400, "You have already voted for this link")
VoteCounted == Resp(200, "Vote counted successfully")
ServerError == Resp(500, "Server Error during voting process")

\* A faulty variant of the status check: it turns down rejected links only.
StatusAllowsVote_NotRejected(link) == link.status # "rejected"

\* if (link.status !== 'approved') return 403
StatusAllowsVote(link) == link.status = "approved"

\* A faulty variant of the duplicate check: it compares the ObjectId itself
\* with the string, votedId === linkIdStr, which never holds.
HasVoted_NoToString(user, linkId) == FALSE

\* user.upvotedLinks.some(votedId => votedId.toString() === linkIdStr)
HasVoted(user, linkId) ==
    \E i \in DOMAIN user.upvotedLinks : user.upvotedLinks[i] = linkId

\* { $push: { upvotedLinks: linkId } }
Push(upvotedLinks, linkId) == Append(upvotedLinks, linkId)

\* A faulty variant of the increment: { $inc: { score: -1 } }
IncScore_Down(score) == score - 1

\* A faulty variant of the increment: { $set: { score: 1 } }, a value written
\* in place of an increment
IncScore_Set(score) == 1

\* { $inc: { score: 1 } }
IncScore(score) == score + 1

\* response.ok
Ok(resp) == resp.status >= 200 /\ resp.status < 300

\* One vote call of a client.  The handler's part: the request's linkId and
\* userId, where the handler stands (pc), what Link.findById returned
\* (linkStatus), what the duplicate check found (userSeen) and which of the
\* two writes this request has performed.  The client's part: how many
\* requests it sends at most (tries: 1 for a plain HTTP client, MAX_RETRIES
\* for fetchApi), fetchApi's loop counter (attempt) and whether an earlier
\* attempt was answered 5xx (transient).
NewCall(linkId, userId, tries) ==
    [l |-> linkId, u |-> userId, pc |-> "findLink", tries |-> tries,
     attempt |-> 0, transient |-> FALSE, linkStatus |-> "unread",
     userSeen |-> "unread", pushed |-> FALSE, incd |-> FALSE]

\* The call waits in fetchApi's delay before its next attempt.
Backoff(call, resp) ==
    [NewCall(call.l, call.u, call.tries) EXCEPT
        !.pc = "backoff",
        !.attempt = call.attempt + 1,
        !.transient = call.transient \/ resp.status >= 500]

VoteAnswer(call, resp, newScore) ==
    [op |-> "vote", l |-> call.l, u |-> call.u, res |-> resp, newScore |-> newScore,
     attempt |-> call.attempt, transient |-> call.transient,
     linkStatus |-> call.linkStatus, userSeen |-> call.userSeen,
     pushed |-> call.pushed, incd |-> call.incd]

\* The calls in progress, told apart by their state only.
InProgress == BagToSet(calls)

\* calls without the call `old`; a call that has just arrived is not in it
Drop(old) == IF BagIn(old, calls) THEN calls (-) SetToBag({old}) ELSE calls

\* calls with `call` in place of `old`
Place(old, call) == Drop(old) (+) SetToBag({call})

\* No vote call is in progress.
Settled == InProgress = {}

\* A faulty variant of the loop: it goes round after every failure.
MayRetry_Always(call, resp) == ~Ok(resp)

\* fetchApi's loop goes round again after an answer that is not ok while
\* attempts are left: after a 5xx or 429 by `continue`, after any other by
\* the throw that the loop's own catch absorbs.
MayRetry(call, resp) == ~Ok(resp) /\ call.attempt + 1 < call.tries

\* The handler answers the request of the call that stood as `old` and stands
\* as `call` now: the call ends there, or waits for its next attempt.
Answered(old, call, resp, newScore) ==
    /\ out' = VoteAnswer(call, resp, newScore)
    /\ calls' = IF MayRetry(call, resp) THEN Place(old, Backoff(call, resp))
                ELSE Drop(old)

\* The request arrives and runs to the end of its first storage call,
\* Link.findById.
VoteArrives(old, call) ==
    LET link == FindLinkById(call.l)
    IN  /\ issued < MaxCalls
        /\ \/ /\ ~IsValid(call.l)
              /\ Answered(old, call, InvalidId, 0)
              /\ issued' = issued
           \/ /\ IsValid(call.l)
              /\ Answered(old, call, ServerError, 0)          \* findById throws
              /\ issued' = issued
           \/ /\ IsValid(call.l)
              /\ IF ~link.exists
                   THEN /\ Answered(old, [call EXCEPT !.linkStatus = "null"],
                                    LinkNotFound, 0)
                        /\ issued' = issued
                 ELSE IF ~StatusAllowsVote(link)
                   THEN /\ Answered(old, [call EXCEPT !.linkStatus = link.status],
                                    Forbidden, 0)
                        /\ issued' = issued
                 ELSE /\ calls' = Place(old, [call EXCEPT !.linkStatus = link.status,
                                                        !.pc = "findUser"])
                      /\ out' = NoOut
                      /\ issued' = issued + 1
        /\ UNCHANGED <<users, links, counted, now, feed>>

\* PATCH /api/links/:id/vote of a client whose token the auth middleware
\* lets pass.
StartVote(old, call) == VoteArrives(old, call) /\ Elsewhere

\* The ids a request can carry: the token names a registered user or a user
\* whose document is gone; the path names any string.
TokenUserIds == Registered \cup {GhostId}
PathLinkIds == Submitted \cup {GhostId, BadId}

\* A client issues castVote(linkId, userId) in one plain request.
CastVote(linkId, userId) ==
    StartVote(NewCall(linkId, userId, 1), NewCall(linkId, userId, 1))

\* A client issues castVote(linkId, userId) through fetchApi.
FetchVote(linkId, userId) ==
    StartVote(NewCall(linkId, userId, MAX_RETRIES), NewCall(linkId, userId, MAX_RETRIES))

\* fetchApi's next attempt of the same request.
Resend(call) ==
    /\ call.pc = "backoff"
    /\ StartVote(call, [call EXCEPT !.pc = "findLink"])

\* What fetchApi's catch holds when fetch itself rejects: no response.
NetworkError == Resp(0, "Failed to fetch")

\* An attempt of fetchApi whose request does not reach the server: fetch
\* rejects and the loop's catch takes the error.
FetchFails(old, call) ==
    /\ Answered(old, call, NetworkError, 0)
    /\ UNCHANGED <<users, links, issued, counted, now, feed>>
    /\ Elsewhere

\* User.findById(userId).select('upvotedLinks'), then the duplicate check
FindUser(call) ==
    LET user == FindUserById(call.u)
    IN  /\ call.pc = "findUser"
        /\ \/ Answered(call, call, ServerError, 0)             \* findById throws
           \/ IF ~user.exists
                THEN Answered(call, [call EXCEPT !.userSeen = "null"], UserNotFound, 0)
              ELSE IF HasVoted(user, call.l)
                THEN Answered(call, [call EXCEPT !.userSeen = "voted"], DuplicateVote, 0)
              ELSE /\ calls' = Place(call, [call EXCEPT !.userSeen = "fresh",
                                                        !.pc = "updateUser"])
                   /\ out' = NoOut
        /\ UNCHANGED <<users, links, issued, counted, now, feed>>
        /\ Elsewhere

\* A. User.updateOne({ _id: userId }, { $push: { upvotedLinks: linkId } })
UpdateUser(call) ==
        /\ call.pc = "updateUser"
        /\ \/ /\ Answered(call, call, ServerError, 0)          \* updateOne throws
              /\ users' = users
           \/ /\ users' = [users EXCEPT ![call.u].upvotedLinks = Push(@, call.l)]
              /\ calls' = Place(call, [call EXCEPT !.pushed = TRUE,
                                                   !.pc = "updateLink"])
              /\ out' = NoOut
        /\ UNCHANGED <<links, issued, counted, now, feed>>
        /\ Elsewhere

\* A faulty variant of the update: it drops the status with the write.
IncDoc_ResetsStatus(model, doc) ==
    [doc EXCEPT !.score = IncScore(@), !.status = "pending"]

\* The update { $inc: { score: 1 } } on a document of the Link model `model`:
\* the schema is strict, so the update of a path it does not declare is
\* dropped, and nothing is written.
IncDoc(model, doc) ==
    IF "score" \in model.paths THEN [doc EXCEPT !.score = IncScore(@)] ELSE doc

\* A faulty variant of the option: { new: false }, the document as it was
Returned_Old(before, after) == before

\* { new: true }: findByIdAndUpdate resolves to the document as updated
Returned(before, after) == after

\* B. Link.findByIdAndUpdate(linkId, { $inc: { score: 1 } }, { new: true }),
\* then the answer with updatedLink.score
UpdateLinkOn(model, call) ==
        /\ call.pc = "updateLink"
        /\ \/ /\ Answered(call, call, ServerError, 0)          \* findByIdAndUpdate throws
              /\ UNCHANGED <<links, counted>>
           \/ /\ links' = [links EXCEPT ![call.l] = IncDoc(model, @)]
              /\ counted' = [counted EXCEPT ![call.u][call.l] = @ + 1]
              /\ Answered(call, [call EXCEPT !.incd = TRUE], VoteCounted,
                          Get(Returned(links[call.l], links'[call.l]), "score"))
        /\ UNCHANGED <<users, issued, now, feed>>
        /\ Elsewhere

UpdateLink(call) == UpdateLinkOn(RouterLink, call)

----------------------------------------------------------------------------
(* GET /api/links *)

\* A faulty variant of the sort: .sort({ score: -1 }), no tie-break
Before_ScoreOnly(a, b) == a.score > b.score

\* .sort({ score: -1, createdAt: -1 }): whether document a goes before b
Before(a, b) ==
    \/ a.score > b.score
    \/ a.score = b.score /\ a.createdAt > b.createdAt

RECURSIVE Insert(_, _)
\* doc put into the sorted sequence, before the first document it goes before
Insert(doc, sorted) ==
    IF sorted = <<>> THEN <<doc>>
    ELSE IF Before(doc, Head(sorted)) THEN <<doc>> \o sorted
    ELSE <<Head(sorted)>> \o Insert(doc, Tail(sorted))

RECURSIVE SortDocs(_)
SortDocs(docs) ==
    IF docs = <<>> THEN <<>>
    ELSE Insert(docs[Len(docs)], SortDocs(SubSeq(docs, 1, Len(docs) - 1)))

\* A faulty variant of the filter: it leaves out the rejected links only.
IsListed_NotRejected(link) == link.exists /\ link.status # "rejected"

\* Link.find({ status: 'approved' })
IsListed(link) == link.exists /\ link.status = "approved"

RECURSIVE Find(_)
\* the documents the scan yields, scan being the ids in the order of the scan
Find(scan) ==
    IF scan = <<>> THEN <<>>
    ELSE (IF IsListed(links[Head(scan)])
            THEN <<[links[Head(scan)] EXCEPT !.exists = Head(scan)]>>
            ELSE <<>>) \o Find(Tail(scan))

\* links.map(link => ({ id, url, username, score }))
FeedEntry(doc) ==
    [id |-> doc.exists, url |-> doc.url, username |-> doc.username, score |-> doc.score]

\* The answer of GET /api/links when the collection is scanned in the order
\* scan.  A found document carries its id in place of `exists`.
ListApproved(scan) ==
    LET sorted == SortDocs(Find(scan))
    IN  [i \in 1..Len(sorted) |-> FeedEntry(sorted[i])]

\* The orders in which a scan can yield the ids: MongoDB promises none.
Scans(ids) ==
    {s \in [1..Cardinality(ids) -> ids] : \A i, j \in DOMAIN s : i # j => s[i] # s[j]}

GetLinks(scan) ==
    /\ \/ /\ feed' = ListApproved(scan)
          /\ out' = [op |-> "list", res |-> Resp(200, "")]
       \/ /\ feed' = feed                                   \* find throws
          /\ out' = [op |-> "list", res |-> Resp(500, "Server Error fetching links")]
    /\ UNCHANGED <<users, links, calls, issued, counted, now>>
    /\ Elsewhere

----------------------------------------------------------------------------
(* The tokens: jwt.sign in the users router, jwt.verify in the auth        *)
(* middleware before POST /api/links and PATCH /api/links/:id/vote         *)

\* const JWT_SECRET = process.env.JWT_SECRET || 'fallback_secret_key', read
\* when the users router loads
FallbackSecret == "fallback_secret_key"
JWT_SECRET == IF env.atLoad = NoSecret THEN FallbackSecret ELSE env.atLoad

\* payload.user = { id: user.id, role: user.role }; a user's role is the
\* default of the schema, no handler writes another
Payload(userId) == [id |-> userId, role |-> "member"]
NoPayload == [id |-> GhostId, role |-> "none"]

\* A token: what it carries, the key of its signature and whether its five
\* days are over when it is presented.
Sign(payload, key) == [payload |-> payload, key |-> key, expired |-> FALSE]

\* A request without the Authorization header, and one whose header is no JWT.
NoToken == [payload |-> NoPayload, key |-> NoSecret, expired |-> FALSE]
Garbage == [payload |-> NoPayload, key |-> "garbage", expired |-> FALSE]

\* The tokens a request can carry: none, no JWT, the token the users router
\* has signed for a user, fresh or expired, and a token for a user signed
\* with a key of the sender's own.
Tokens ==
    {NoToken, Garbage} \cup
    {[Sign(Payload(u), JWT_SECRET) EXCEPT !.expired = e] :
        u \in TokenUserIds, e \in BOOLEAN} \cup
    {Sign(Payload(u), "forged") : u \in Registered}

\* A faulty variant of the verification: every token passes.
Verifies_Any(token, secret) == TRUE

\* jwt.verify(token, secret) does not throw: it throws without a secret, on
\* a signature made with another key and on an expired token.
Verifies(token, secret) ==
    /\ secret # NoSecret
    /\ token.key = secret
    /\ ~token.expired

NoTokenDenied == Resp(401, "No token, authorization denied")
TokenNotValid == Resp(401, "Token is not valid")

\* auth(req, res, next): whether it calls next(), the answer it sends when
\* it does not, and the req.user it sets
Auth(token) ==
    IF token = NoToken
      THEN [next |-> FALSE, res |-> NoTokenDenied, user |-> NoPayload]
    ELSE IF ~Verifies(token, env.atRequest)
      THEN [next |-> FALSE, res |-> TokenNotValid, user |-> NoPayload]
    ELSE [next |-> TRUE, res |-> NoResp, user |-> token.payload]

AuthAnswer(resp) == [op |-> "auth", res |-> resp]

\* PATCH /api/links/:id/vote with the token `token`: the middleware, then
\* the handler with userId = req.user.id
AuthVote(token, linkId) ==
    LET a == Auth(token)
        call == NewCall(linkId, a.user.id, 1)
    IN  /\ env' = env
        /\ UNCHANGED clientVars
        /\ req' = [op |-> "vote", token |-> token, user |-> a.user]
        /\ IF a.next
             THEN VoteArrives(call, call)
             ELSE /\ out' = AuthAnswer(a.res)
                  /\ UNCHANGED <<users, links, calls, issued, counted, now, feed>>

\* POST /api/links with the token `token`: the middleware, then the handler
AuthSubmit(token, url) ==
    LET a == Auth(token)
    IN  /\ env' = env
        /\ UNCHANGED clientVars
        /\ req' = [op |-> "submit", token |-> token, user |-> a.user]
        /\ IF a.next
             THEN SubmitArrives(RouterLink, a.user.id, url)
             ELSE /\ out' = AuthAnswer(a.res)
                  /\ UNCHANGED <<users, links, calls, issued, counted, now, feed>>

InvalidCredentials == Resp(400, "Invalid Credentials")
LoggedIn == Resp(200, "")

LoginAnswer(p, resp, token) == [op |-> "login", u |-> p, res |-> resp, token |-> token]

\* POST /api/users/login of person p, with the password of the account or
\* another.  The two awaits are one step: the handler writes nothing.
Login(p, isMatch) ==
    /\ p <= Cardinality(Registered) + 1
    /\ out' = IF ~users[p].exists \/ ~isMatch
                THEN LoginAnswer(p, InvalidCredentials, NoToken)
                ELSE LoginAnswer(p, LoggedIn, Sign(Payload(p), JWT_SECRET))
    /\ UNCHANGED <<users, links, calls, issued, counted, now, feed>>
    /\ Elsewhere

\* GET /api/links answered to a client that keeps no feed: the list is in
\* the answer only.
ListLinks(scan) ==
    /\ \/ out' = [op |-> "list", res |-> Resp(200, ""), json |-> ListApproved(scan)]
       \/ out' = [op |-> "list", res |-> Resp(500, "Server Error fetching links"),
                  json |-> <<>>]                             \* find throws
    /\ UNCHANGED <<users, links, calls, issued, counted, now, feed>>
    /\ Elsewhere

----------------------------------------------------------------------------
(* The Firestore client (App): handleSubmitLink and handleVote.  Each user  *)
(* runs a client of their own; Firestore is the store they share.           *)

\* { title, url, score: 1, voterIds: [userId], createdAt, authorId: userId };
\* version stands for the update time Firestore keeps of a document
NewFireLink(userId) ==
    [exists |-> TRUE, score |-> 1, voterIds |-> <<userId>>, authorId |-> userId,
     version |-> 0]

FireSubmitted == {l \in FireIds : fireLinks[l].exists}

\* handleSubmitLink of the client of userId: addDoc, which may fail
HandleSubmitLink(userId) ==
    /\ Cardinality(FireSubmitted) < MaxFireLinks
    /\ \/ fireLinks' = [fireLinks EXCEPT ![Cardinality(FireSubmitted) + 1] =
                            NewFireLink(userId)]
       \/ fireLinks' = fireLinks
    /\ UNCHANGED <<txns, isVotingState, provider>>
    /\ UNCHANGED serverVars

\* voterIds.includes(userId)
Includes(voterIds, userId) == \E i \in DOMAIN voterIds : voterIds[i] = userId

\* arrayUnion(userId): adds userId if not present
ArrayUnion(voterIds, userId) ==
    IF Includes(voterIds, userId) THEN voterIds ELSE Append(voterIds, userId)

\* A faulty variant of the commit: it does not look at what it has read.
Validates_Any(read, doc) == TRUE

\* The commit of a transaction goes through when the document it has read
\* has not been written since.
Validates(read, doc) == read.version = doc.version

\* A faulty variant of the finally block: it leaves the flag.
Settle_Skip(flags, userId, linkId) == flags

\* finally: setIsVotingState(prev => ({ ...prev, [linkId]: false }))
Settle(flags, userId, linkId) == [flags EXCEPT ![userId][linkId] = FALSE]

\* What a transaction keeps of the document it has read: the score its
\* update is made of, and the version its commit is checked against.
Snapshot(doc) == [exists |-> TRUE, score |-> doc.score, version |-> doc.version]

\* A handleVote call past setIsVotingState(true): about to read (get) or to
\* commit the update it has made of what it read; again tells that
\* runTransaction is running the function once more.
NewTxn(userId, linkId) ==
    [u |-> userId, l |-> linkId, pc |-> "get", again |-> FALSE, read |-> Null]

\* handleVote(linkId, linkRef) of the client of userId up to the await; the
\* button that calls it is disabled while isVotingState[linkId] is true
HandleVote(userId, linkId) ==
    /\ BagCardinality(txns) < MaxCalls
    /\ ~isVotingState[userId][linkId]
    /\ isVotingState' = [isVotingState EXCEPT ![userId][linkId] = TRUE]
    /\ txns' = txns (+) SetToBag({NewTxn(userId, linkId)})
    /\ UNCHANGED <<fireLinks, provider>>
    /\ UNCHANGED serverVars

\* The call ends, by the end of runTransaction or by an error it throws:
\* catch and finally.
VoteSettles(txn) ==
    /\ txns' = txns (-) SetToBag({txn})
    /\ isVotingState' = Settle(isVotingState, txn.u, txn.l)

\* transaction.get(linkRef) and the checks of what it returns
TxGet(txn) ==
    /\ txn.pc = "get"
    /\ \/ VoteSettles(txn)                                   \* get throws
       \/ IF ~fireLinks[txn.l].exists \/ Includes(fireLinks[txn.l].voterIds, txn.u)
            THEN VoteSettles(txn)         \* 'Link does not exist.', 'You have already voted'
            ELSE /\ txns' = (txns (-) SetToBag({txn})) (+)
                            SetToBag({[txn EXCEPT !.pc = "commit",
                                                  !.read = Snapshot(fireLinks[txn.l])]})
                 /\ isVotingState' = isVotingState
    /\ UNCHANGED <<fireLinks, provider>>
    /\ UNCHANGED serverVars

\* transaction.update(linkRef, { score: (data.score || 0) + 1, voterIds:
\* arrayUnion(userId) }) and the commit: it writes, or it runs the function
\* again when the document has been written since the read, or it fails
\* (runTransaction giving up after its last attempt is one such failure).
TxCommit(txn) ==
    /\ txn.pc = "commit"
    /\ \/ /\ VoteSettles(txn)                                \* the commit throws
          /\ fireLinks' = fireLinks
       \/ IF Validates(txn.read, fireLinks[txn.l])
            THEN /\ fireLinks' = [fireLinks EXCEPT ![txn.l] =
                                     [@ EXCEPT !.score = txn.read.score + 1,
                                               !.voterIds = ArrayUnion(@, txn.u),
                                               !.version = @ + 1]]
                 /\ VoteSettles(txn)
          ELSE /\ txns' = (txns (-) SetToBag({txn})) (+)
                          SetToBag({[txn EXCEPT !.pc = "get", !.again = TRUE,
                                                !.read = Null]})
               /\ UNCHANGED <<fireLinks, isVotingState>>
    /\ UNCHANGED provider
    /\ UNCHANGED serverVars

----------------------------------------------------------------------------
(* The client's AuthProvider: loadUser, login, register, logout.  A caller  *)
(* holds login, register and logout from the context, so calls may overlap. *)

\* What the client is answered with a token: the users router signs one for
\* the account.
ServerTokens == {Sign(Payload(u), JWT_SECRET) : u \in UserIds}

\* What localStorage holds under 'token' when the page loads: nothing, a
\* string that is no JWT, or a token of an earlier session, which may have
\* expired since.
StoredTokens ==
    {NoToken, Garbage} \cup ServerTokens \cup
    {[t EXCEPT !.expired = TRUE] : t \in ServerTokens}

\* JSON.parse(atob(token.split('.')[1])) does not throw
Decodable(token) == token # Garbage

\* tokenPayload.user: the payload is read, the signature and the expiry are not
Decode(token) == token.payload

\* useState(null), useState(true), useState(localStorage.getItem('token')),
\* and the effect that runs after the first render
Mounted(stored) ==
    [mounted |-> TRUE, stored |-> stored, token |-> stored, user |-> NoPayload,
     loading |-> TRUE, effect |-> TRUE, logins |-> 0, registers |-> 0,
     did |-> "mount"]

\* isAuthenticated: !!user
IsAuthenticated(p) == p.user # NoPayload

\* The page loads and renders the AuthProvider.
Mount(stored) ==
    /\ ~provider.mounted
    /\ provider' = Mounted(stored)
    /\ UNCHANGED <<fireLinks, txns, isVotingState>>
    /\ UNCHANGED serverVars

\* fetchApi answered 401: localStorage.removeItem('token') and
\* window.location.reload(), which ends the calls of the page
Reload ==
    /\ provider.mounted
    /\ provider' = Mounted(NoToken)
    /\ UNCHANGED <<fireLinks, txns, isVotingState>>
    /\ UNCHANGED serverVars

\* The state after loadUser has run on state p.  setToken(null) in its catch
\* changes the token, so the effect is due again.
LoadedUser(p) ==
    IF p.token = NoToken
      THEN [p EXCEPT !.loading = FALSE, !.effect = FALSE, !.did = "loadUser"]
    ELSE IF Decodable(p.token)
      THEN [p EXCEPT !.user = Decode(p.token), !.loading = FALSE,
                     !.effect = FALSE, !.did = "loadUser"]
    ELSE [p EXCEPT !.stored = NoToken, !.token = NoToken, !.user = NoPayload,
                   !.loading = FALSE, !.effect = TRUE, !.did = "loadUser"]

\* useEffect(() => { loadUser(); }, [token])
loadUser ==
    /\ provider.mounted
    /\ provider.effect
    /\ provider' = LoadedUser(provider)
    /\ UNCHANGED <<fireLinks, txns, isVotingState>>
    /\ UNCHANGED serverVars

\* The calls of login and register that await fetchApi.
AuthCalls(p) == p.logins + p.registers

\* login(email, password) up to the await: setLoading(true)
login ==
    /\ provider.mounted
    /\ AuthCalls(provider) < MaxCalls
    /\ provider' = [provider EXCEPT !.loading = TRUE, !.logins = @ + 1,
                                    !.did = "login"]
    /\ UNCHANGED <<fireLinks, txns, isVotingState>>
    /\ UNCHANGED serverVars

\* register(username, email, password) up to the await: setLoading(true)
register ==
    /\ provider.mounted
    /\ AuthCalls(provider) < MaxCalls
    /\ provider' = [provider EXCEPT !.loading = TRUE, !.registers = @ + 1,
                                    !.did = "register"]
    /\ UNCHANGED <<fireLinks, txns, isVotingState>>
    /\ UNCHANGED serverVars

\* try: localStorage.setItem('token', data.token); setToken(data.token);
\* setLoading(false); the effect is due when the token has changed
Resolved(p, token) ==
    [p EXCEPT !.stored = token, !.token = token, !.loading = FALSE,
              !.effect = @ \/ token # p.token]

\* A faulty variant of the catch: it throws on without setLoading(false).
Rejected_KeepsLoading(p) == p

\* catch: setLoading(false); throw error
Rejected(p) == [p EXCEPT !.loading = FALSE]

\* fetchApi of a login call returns or throws.
loginSettles ==
    /\ provider.mounted
    /\ provider.logins > 0
    /\ \/ \E token \in ServerTokens :
            provider' = [Resolved(provider, token) EXCEPT !.logins = @ - 1,
                                                          !.did = "loginResolved"]
       \/ provider' = [Rejected(provider) EXCEPT !.logins = @ - 1,
                                                 !.did = "loginRejected"]
    /\ UNCHANGED <<fireLinks, txns, isVotingState>>
    /\ UNCHANGED serverVars

\* fetchApi of a register call returns or throws.
registerSettles ==
    /\ provider.mounted
    /\ provider.registers > 0
    /\ \/ \E token \in ServerTokens :
            provider' = [Resolved(provider, token) EXCEPT !.registers = @ - 1,
                                                          !.did = "registerResolved"]
       \/ provider' = [Rejected(provider) EXCEPT !.registers = @ - 1,
                                                 !.did = "registerRejected"]
    /\ UNCHANGED <<fireLinks, txns, isVotingState>>
    /\ UNCHANGED serverVars

\* logout(): localStorage.removeItem('token'); setToken(null); setUser(null)
logout ==
    /\ provider.mounted
    /\ provider' = [provider EXCEPT !.stored = NoToken, !.token = NoToken,
                                    !.user = NoPayload,
                                    !.effect = @ \/ provider.token # NoToken,
                                    !.did = "logout"]
    /\ UNCHANGED <<fireLinks, txns, isVotingState>>
    /\ UNCHANGED serverVars

----------------------------------------------------------------------------
(* The specifications *)

\* The handlers other than the vote's first step.  Of the registrations and
\* submissions, the specifications of the vote take those that change a
\* collection: one that is turned down changes nothing but its own answer.
HandlersOn(model) ==
    \/ \E p \in UserIds \ Registered : Register(p)
    \/ \E u \in Registered, url \in LinkIds \ Submitted : SubmitLinkOn(model, u, url)
    \/ \E l \in LinkIds : Approve(l)
    \/ \E l \in LinkIds : Reject(l)
    \/ \E call \in InProgress : FindUser(call)
    \/ \E call \in InProgress : UpdateUser(call)
    \/ \E call \in InProgress : UpdateLinkOn(model, call)

Handlers == HandlersOn(RouterLink)

\* Plain clients vote concurrently.
Next ==
    \/ Handlers
    \/ \E l \in PathLinkIds, u \in TokenUserIds : CastVote(l, u)

Spec == Init /\ [][Next]_vars

\* Plain clients vote one after the other: a vote is issued once the
\* previous one has been answered.
NextSeq ==
    \/ Handlers
    \/ \E l \in PathLinkIds, u \in TokenUserIds : Settled /\ CastVote(l, u)

SpecSeq == Init /\ [][NextSeq]_vars

\* Clients vote through fetchApi, one after the other.
NextRetry ==
    \/ Handlers
    \/ \E l \in PathLinkIds, u \in TokenUserIds : Settled /\ FetchVote(l, u)
    \/ \E call \in InProgress : Resend(call)

SpecRetry == Init /\ [][NextRetry]_vars

\* Clients vote through fetchApi over a network that may drop a request.
\* The links they meet are pending or approved: a rejected link is answered
\* as a pending one.
NextFetch ==
    \/ \E p \in UserIds \ Registered : Register(p)
    \/ \E u \in Registered, url \in LinkIds \ Submitted : SubmitLink(u, url)
    \/ \E l \in LinkIds : Approve(l)
    \/ \E call \in InProgress : FindUser(call)
    \/ \E call \in InProgress : UpdateUser(call)
    \/ \E call \in InProgress : UpdateLink(call)
    \/ \E l \in PathLinkIds, u \in TokenUserIds : Settled /\ FetchVote(l, u)
    \/ \E call \in InProgress : Resend(call)
    \/ \E l \in PathLinkIds, u \in TokenUserIds :
          Settled /\ FetchFails(NewCall(l, u, MAX_RETRIES), NewCall(l, u, MAX_RETRIES))
    \/ \E call \in InProgress :
          call.pc = "backoff" /\ FetchFails(call, [call EXCEPT !.pc = "findLink"])

SpecFetch == Init /\ [][NextFetch]_vars

\* The links router on the Link model of the repository, LinkSchema, by the
\* side of the earlier links router; plain clients vote one after the other.
NextSchema ==
    \/ HandlersOn(LinkSchema)
    \/ \E u \in TokenUserIds, url \in {0} \cup (LinkIds \ Submitted) :
          PostLinkOn(LinkSchema, u, url)
    \/ \E l \in PathLinkIds, u \in TokenUserIds : Settled /\ CastVote(l, u)

SpecSchema == Init /\ [][NextSchema]_vars

\* The strings a submission can carry: none, well-formed or malformed.
Urls == (0 - MaxLinks)..MaxLinks

\* Every operation with every input, the ones that are turned down included:
\* registrations, submissions, the gate, plain votes one after the other and
\* listings.
NextCore ==
    \/ \E p \in UserIds : Register(p)
    \/ \E u \in TokenUserIds, url \in Urls : SubmitLink(u, url)
    \/ \E l \in Submitted : ApproveCall(l)
    \/ \E l \in Submitted : RejectCall(l)
    \/ \E l \in PathLinkIds, u \in TokenUserIds : Settled /\ CastVote(l, u)
    \/ \E call \in InProgress : FindUser(call)
    \/ \E call \in InProgress : UpdateUser(call)
    \/ \E call \in InProgress : UpdateLink(call)
    \/ \E scan \in Scans(Submitted) : ListLinks(scan)

SpecCore == Init /\ [][NextCore]_vars

\* The operations that reach a link, under the gate: submissions of a new
\* and of a known url, approve and reject on a link of any status, plain
\* votes one after the other and listings.
NextGate ==
    \/ \E p \in UserIds \ Registered : Register(p)
    \/ \E u \in Registered, url \in LinkIds : SubmitLink(u, url)
    \/ \E l \in Submitted : ApproveCall(l)
    \/ \E l \in Submitted : RejectCall(l)
    \/ \E l \in PathLinkIds, u \in TokenUserIds : Settled /\ CastVote(l, u)
    \/ \E call \in InProgress : FindUser(call)
    \/ \E call \in InProgress : UpdateUser(call)
    \/ \E call \in InProgress : UpdateLink(call)
    \/ \E scan \in Scans(Submitted) : ListLinks(scan)

SpecGate == Init /\ [][NextGate]_vars

\* The users router under concurrent registrations with any username and
\* email.
NextUsers ==
    \/ \E username \in UserIds, email \in UserIds : RegisterStart(username, email)
    \/ \E call \in InProgress : RegisterSave(call)

SpecUsers == Init /\ [][NextUsers]_vars

\* The server under any deployment of JWT_SECRET, and clients that present
\* any token: plain votes one after the other.
InitAuth ==
    /\ InitStore
    /\ env \in Envs
    /\ InitClients
    /\ provider = NoProvider

NextAuth ==
    \/ \E p \in UserIds \ Registered : Register(p)
    \/ \E p \in UserIds, isMatch \in BOOLEAN : Login(p, isMatch)
    \/ \E token \in Tokens, url \in LinkIds \ Submitted : AuthSubmit(token, url)
    \/ \E l \in LinkIds : Approve(l)
    \/ \E l \in LinkIds : Reject(l)
    \/ \E token \in Tokens, l \in PathLinkIds : Settled /\ AuthVote(token, l)
    \/ \E call \in InProgress : FindUser(call)
    \/ \E call \in InProgress : UpdateUser(call)
    \/ \E call \in InProgress : UpdateLink(call)

SpecAuth == InitAuth /\ [][NextAuth]_vars

\* The Firestore clients of the users, which submit and vote concurrently.
NextFire ==
    \/ \E u \in FireUserIds : HandleSubmitLink(u)
    \/ \E u \in FireUserIds, l \in FireIds : HandleVote(u, l)
    \/ \E txn \in BagToSet(txns) : TxGet(txn)
    \/ \E txn \in BagToSet(txns) : TxCommit(txn)

SpecFire == Init /\ [][NextFire]_vars

\* An AuthProvider and the calls of its consumers.  fetchApi returns or
\* throws after MAX_RETRIES requests at most, and React runs the effect of a
\* render whose token has changed.
NextProvider ==
    \/ \E stored \in StoredTokens : Mount(stored)
    \/ Reload
    \/ loadUser
    \/ login
    \/ register
    \/ loginSettles
    \/ registerSettles
    \/ logout

SpecProvider ==
    /\ Init
    /\ [][NextProvider]_vars
    /\ WF_vars(loadUser)
    /\ WF_vars(loginSettles)
    /\ WF_vars(registerSettles)

\* The scores and timestamps of the links of a collection to rank.
FeedScores == {3, 5}
FeedTimes == {1, 2, 3}
FeedIds == 1..MaxFeedLinks

\* GET /api/links on any collection of links: of each status, with equal and
\* different scores and timestamps.
InitFeed ==
    /\ users = [u \in UserIds |-> Null]
    /\ \E status \in [FeedIds -> {"pending", "approved", "rejected"}],
          score \in [FeedIds -> FeedScores],
          createdAt \in [FeedIds -> FeedTimes] :
            links = [l \in FeedIds |->
                        [exists |-> TRUE, url |-> l, user |-> 1, username |-> 1,
                         status |-> status[l], score |-> score[l],
                         createdAt |-> createdAt[l]]]
    /\ calls = EmptyBag
    /\ out = NoOut
    /\ issued = 0
    /\ counted = [u \in UserIds |-> [l \in LinkIds |-> 0]]
    /\ now = 3
    /\ feed = <<>>
    /\ env = EnvInProcess("s3cret")
    /\ req = NoReq
    /\ InitClients
    /\ provider = NoProvider

\* One request per collection.
NextFeed == \E scan \in Scans(Submitted) : out = NoOut /\ GetLinks(scan)

SpecFeed == InitFeed /\ [][NextFeed]_vars

----------------------------------------------------------------------------
(* The claims *)

\* the number of distinct users whose upvotedLinks contains l
VoterCount(l) ==
    Cardinality({u \in Registered : Count(l, users[u].upvotedLinks) > 0})

\* C1: once every vote call has been answered, each approved link's score
\* equals the number of distinct users whose upvotedLinks contains its id.
C1_ScoreEqualsVoters ==
    Settled =>
        \A l \in Submitted :
            links[l].status = "approved" => links[l].score = VoterCount(l)

\* C2: of the votes issued concurrently by one user for one link at most one
\* is answered 200, and the link's score goes up by one only: it never
\* exceeds the number of the link's voters.
C2_ConcurrentVotesCountOnce ==
    \A u \in Registered, l \in Submitted :
        /\ counted[u][l] <= 1
        /\ links[l].score <= VoterCount(l)

\* C3: a vote request that has been answered has performed both of its
\* writes or neither.
C3_VoteIsAtomic ==
    out.op = "vote" => (out.pushed <=> out.incd)

\* C4: a vote that was answered 500 and repeated unchanged until its answer
\* was 200 or the duplicate error leaves the link once in the user's
\* upvotedLinks and the link's score equal to its number of voters.
C4_RetryAfterTransientIsSafe ==
    (out.op = "vote" /\ out.transient /\ out.res \in {VoteCounted, DuplicateVote}) =>
        /\ Count(out.l, users[out.u].upvotedLinks) = 1
        /\ links[out.l].score = VoterCount(out.l)

C6_UnapprovedLinkIsForbidden ==
    /\ [](\A call \in InProgress :
            call.pc \in {"findUser", "updateUser", "updateLink"} =>
                links[call.l].status = "approved")
    /\ [][(/\ out'.op = "vote"
           /\ out'.l \in Submitted
           /\ links[out'.l].status \in {"pending", "rejected"}) =>
               /\ out'.res \in {Forbidden, ServerError}
               /\ ~out'.pushed /\ ~out'.incd
               /\ users' = users /\ links' = links
        ]_vars

\* A vote on a rejected link by a user who does not exist was answered 403.
C6_Witness ==
    /\ out.op = "vote" /\ out.res = Forbidden
    /\ out.u = GhostId
    /\ links[out.l].status = "rejected"

\* The checks in the order the specification lists them: the error of the
\* first that fails for the vote of u on l in the current collections,
\* NoResp when none fails.
FirstFailingOfFour(l, u) ==
    IF l \notin Submitted THEN LinkNotFound
    ELSE IF links[l].status # "approved" THEN Forbidden
    ELSE IF u \notin Registered THEN UserNotFound
    ELSE IF Count(l, users[u].upvotedLinks) > 0 THEN DuplicateVote
    ELSE NoResp

\* The same with the check of the id's format before them.
FirstFailing(l, u) ==
    IF l = BadId THEN InvalidId ELSE FirstFailingOfFour(l, u)

\* The request answered by the step just taken has written nothing.
WritesNothing ==
    /\ ~out'.pushed /\ ~out'.incd
    /\ users' = users /\ links' = links

\* C7 as stated: a vote that is turned down gets the error of the first
\* failing of the four checks (link exists, link approved, user exists, not
\* voted yet) and writes nothing.
C7_FourChecksInOrder ==
    [][(out'.op = "vote" /\ out'.res \notin {VoteCounted, ServerError}) =>
          /\ out'.res = FirstFailingOfFour(out'.l, out'.u)
          /\ WritesNothing
      ]_vars

\* C7 amended: a malformed link id is turned down first, with 400 'Invalid
\* link ID format'; then the four checks in their order.  A vote that is
\* turned down gets the error of the first failing check and writes nothing,
\* and a request reaches its writes only with every check passed.
C7_IdFormatThenFourChecks ==
    /\ [](\A call \in InProgress :
            call.pc \in {"updateUser", "updateLink"} =>
                /\ call.l \in Submitted /\ call.u \in Registered
                /\ call.linkStatus = "approved" /\ call.userSeen = "fresh")
    /\ [][(out'.op = "vote" /\ out'.res \notin {VoteCounted, ServerError}) =>
             /\ out'.res = FirstFailing(out'.l, out'.u)
             /\ WritesNothing
        ]_vars

\* A vote with a malformed link id by a user who does not exist was answered
\* 400 'Invalid link ID format'.
C7_Witness ==
    /\ out.op = "vote" /\ out.res = InvalidId
    /\ out.l = BadId /\ out.u = GhostId

\* C8: no link id stands twice in a user's upvotedLinks.
C8_UpvotedLinksHasNoDuplicate ==
    \A u \in Registered, l \in Submitted : Count(l, users[u].upvotedLinks) <= 1

\* C9: no step lowers a link's score, removes a link or a user, or takes a
\* link id out of a user's upvotedLinks: the list only grows at its end.
C9_VotesAreIrrevocable ==
    [][/\ \A l \in LinkIds : links[l].exists =>
             links'[l].exists /\ links'[l].score >= links[l].score
       /\ \A u \in UserIds : users[u].exists =>
             /\ users'[u].exists
             /\ Len(users[u].upvotedLinks) <= Len(users'[u].upvotedLinks)
             /\ \A i \in DOMAIN users[u].upvotedLinks :
                   users'[u].upvotedLinks[i] = users[u].upvotedLinks[i]
      ]_vars

\* Two votes were counted on one link, and the step just taken was a vote's.
C9_Witness ==
    /\ out.op = "vote"
    /\ \E l \in Submitted : links[l].score = 2
    /\ \E u \in Registered : Len(users[u].upvotedLinks) >= 1

\* the ids of the links whose status is approved
ApprovedIds == {l \in Submitted : links[l].status = "approved"}

C11_FeedHidesUnapproved ==
    (out.op = "list" /\ Ok(out.res)) =>
        \A i \in DOMAIN feed : links[feed[i].id].status \notin {"pending", "rejected"}

\* A collection with a pending link of score 5, a rejected link of score 5 and
\* an approved link of score 3 was answered with the approved link alone.
C11_Witness ==
    /\ out.op = "list" /\ Ok(out.res)
    /\ Len(feed) = 1 /\ links[feed[1].id].score = 3
    /\ \E l \in Submitted : links[l].status = "pending" /\ links[l].score = 5
    /\ \E l \in Submitted : links[l].status = "rejected" /\ links[l].score = 5

\* the owner and the score a Link document holds, under either model's names
OwnerOf(doc) == IF "user" \in DOMAIN doc THEN doc.user ELSE Get(doc, "submittedBy")
ScoreOf(doc) == IF "score" \in DOMAIN doc THEN doc.score ELSE Get(doc, "votes")

\* C12: POST /api/links by an existing user with a well-formed url that no
\* link has is answered 200 with the new link's id, its url and status
\* pending, and creates that one link: pending, score 0, owned by the caller.
C12_SubmitCreatesPendingLink ==
    [][(/\ out'.op = "submit"
        /\ IsUrl(out'.url)
        /\ LinkIdOf(out'.url) \notin Submitted
        /\ out'.u \in Registered) =>
            LET id == LinkIdOf(out'.url)
            IN  /\ Ok(out'.res)
                /\ Submitted' = Submitted \cup {id}
                /\ \A l \in Submitted : links'[l] = links[l]
                /\ links'[id].url = out'.url
                /\ links'[id].status = "pending"
                /\ ScoreOf(links'[id]) = 0
                /\ OwnerOf(links'[id]) = out'.u
                /\ out'.body.id = id
                /\ out'.body.url = out'.url
                /\ out'.body.status = "pending"
      ]_vars

\* C13: submitting a url that an existing link holds fails with a conflict
\* error, which is not the generic server error, and creates no link.
C13_DuplicateUrlIsConflict ==
    [][(/\ out'.op = "submit"
        /\ out'.url # 0
        /\ out'.u \in Registered
        /\ LinkIdOf(out'.url) \in Submitted) =>
            /\ links' = links
            /\ ~Ok(out'.res)
            /\ out'.res # SubmitServerError]_vars

\* C14: submitting a string that does not parse as a URL fails with a
\* validation error (a 4xx answer) and creates no link.
C14_MalformedUrlIsRejected ==
    [][(/\ out'.op = "submit"
        /\ out'.url # 0
        /\ ~IsUrl(out'.url)) =>
            /\ links' = links
            /\ out'.res.status \in 400..499]_vars

\* C15: approve and reject move a link from pending only, to the status
\* asked for; on a link of any other status they fail with InvalidStateError
\* and leave every link as it was.
C15_GateMovesFromPendingOnly ==
    [][out'.op = "moderate" =>
          LET l == out'.l
          IN  /\ \A k \in Submitted \ {l} : links'[k] = links[k]
              /\ IF links[l].status = "pending"
                    THEN /\ Ok(out'.res)
                         /\ links'[l] = [links[l] EXCEPT !.status = out'.to]
                    ELSE /\ out'.res = InvalidState
                         /\ links'[l] = links[l]]_vars

\* an approve of an approved link has been turned down
C15_Witness ==
    /\ out.op = "moderate"
    /\ out.to = "approved"
    /\ out.res = InvalidState
    /\ links[out.l].status = "approved"

\* C16: the status of an existing link changes in a step of the gate only,
\* and from pending only: no step of a submission, a vote or a listing
\* changes it, and an approved or rejected link keeps its status.
C16_StatusChangesAtGateOnly ==
    [][\A l \in Submitted :
          links'[l].status # links[l].status =>
              /\ out'.op = "moderate"
              /\ out'.l = l
              /\ links[l].status = "pending"]_vars

\* a second vote has been counted on a link, and the link is approved still
C16_Witness ==
    /\ out.op = "vote"
    /\ out.res = VoteCounted
    /\ links[out.l].status = "approved"
    /\ links[out.l].score = 2

\* C17: a vote that fails for another cause than a duplicate is answered
\* with another kind (status) than the duplicate vote is, so that the kind
\* alone tells a duplicate vote from every other failure.
C17_DuplicateVoteHasOwnKind ==
    (out.op = "vote" /\ ~Ok(out.res) /\ out.res # DuplicateVote) =>
        out.res.status # DuplicateVote.status

\* C18: a vote that is counted answers the score the link holds once the
\* vote's update is done, which is the score it held before plus one.
C18_CountedVoteReturnsNewScore ==
    [][(out'.op = "vote" /\ out'.res = VoteCounted) =>
          /\ out'.newScore = ScoreOf(links'[out'.l])
          /\ out'.newScore = ScoreOf(links[out'.l]) + 1]_vars

\* C20: fetchApi sends no further request after an answer with a 4xx status
\* other than 401 and 429: once such an answer is there, the call is over.
C20_ClientErrorIsNotRetried ==
    (/\ out.op = "vote"
     /\ out.res.status \in 400..499
     /\ out.res.status \notin {401, 429}) => Settled

\* C19: no two users hold one username or one email, and a registration
\* that is answered while a user holds its email is answered 400 'User
\* already exists' and creates no user.
C19_UsersAreUnique ==
    /\ [](\A u, v \in Registered :
              u # v => /\ users[u].username # users[v].username
                       /\ users[u].email # users[v].email)
    /\ [][(out'.op = "register" /\ FindUserByEmail(out'.email) # {}) =>
              (out'.res = UserExists /\ users' = users)]_vars

\* C21: a fetchApi call sends at most MAX_RETRIES requests; it is over once
\* an answer is ok, and once the last of MAX_RETRIES attempts has failed,
\* when it throws.  out.attempt is the loop counter of the attempt answered:
\* the attempts sent before it.
C21_FetchApiSendsAtMostMaxRetries ==
    /\ \A call \in InProgress : call.attempt < MAX_RETRIES
    /\ out.op = "vote" =>
          /\ out.attempt + 1 <= MAX_RETRIES
          /\ Ok(out.res) => Settled
          /\ out.attempt + 1 = MAX_RETRIES => Settled

\* the third attempt of a call has failed as the two before it, once by a
\* storage failure of the server, and the call is over
C21_Witness ==
    /\ out.op = "vote"
    /\ out.attempt + 1 = MAX_RETRIES
    /\ out.res = NetworkError
    /\ out.transient
    /\ Settled

\* A token the server's own secret has signed and that has not expired.
SignedByServer(token) ==
    /\ env.atRequest # NoSecret
    /\ token.key = env.atRequest
    /\ ~token.expired

\* C22: a request to a protected route runs the handler exactly when its
\* token verifies under the server's secret; any other request is answered
\* 401 by the middleware and changes no User or Link record (nor lets a vote
\* call start).
C22_ProtectedRoutesNeedValidToken ==
    [][req'.op # "none" =>
          IF SignedByServer(req'.token)
            THEN /\ out'.op # "auth"
                 /\ req'.user = req'.token.payload
            ELSE /\ out'.op = "auth"
                 /\ out'.res.status = 401
                 /\ UNCHANGED <<users, links, calls, issued, counted>>]_vars

\* a vote with a forged token of a registered user on an approved link has
\* been turned down
C22_Witness ==
    /\ req.op = "vote"
    /\ req.token.key = "forged"
    /\ req.token.payload.id \in Registered
    /\ \E l \in Submitted : links[l].status = "approved"
    /\ out = AuthAnswer(TokenNotValid)

\* C26: the token a login has just answered, presented before it expires,
\* passes the auth middleware, and req.user is the id and role of the user
\* who logged in, under every deployment of JWT_SECRET.
C26_TokenRoundTrip ==
    [][(/\ out.op = "login"
        /\ Ok(out.res)
        /\ req'.op # "none"
        /\ req'.token = out.token) =>
            /\ out'.op # "auth"
            /\ req'.user = Payload(out.u)]_vars

\* C23: in the Firestore collection, the score of every link is the number
\* of entries of its voterIds, and no user id is in a link's voterIds twice.
C23_FireScoreEqualsVoters ==
    \A l \in FireSubmitted :
        /\ fireLinks[l].score = Len(fireLinks[l].voterIds)
        /\ \A i, j \in DOMAIN fireLinks[l].voterIds :
              i # j => fireLinks[l].voterIds[i] # fireLinks[l].voterIds[j]

\* a vote has been written to a link while another user's transaction had
\* read it, and that transaction, run again, is about to commit
C23_Witness ==
    \E l \in FireSubmitted :
        /\ fireLinks[l].score >= 2
        /\ \E txn \in BagToSet(txns) :
              txn.l = l /\ txn.again /\ txn.pc = "commit"

\* C24: isVotingState[linkId] of a client is true only while a handleVote
\* call of that client for the link is in progress, and the step that ends a
\* call leaves it false, however the call ends.
C24_VotingFlagIsReset ==
    /\ [](\A u \in FireUserIds, l \in FireIds :
              isVotingState[u][l] => \E txn \in BagToSet(txns) : txn.u = u /\ txn.l = l)
    /\ [][\A txn \in BagToSet(txns) :
              (/\ BagCardinality(txns') < BagCardinality(txns)
               /\ CopiesIn(txn, txns') < CopiesIn(txn, txns)) =>
                  ~isVotingState'[txn.u][txn.l]]_vars

\* every call has ended, the vote of a user other than the creator has been
\* written, and that client's flag of the link is false
C24_Witness ==
    /\ txns = EmptyBag
    /\ \E l \in FireSubmitted, u \in FireUserIds :
          /\ fireLinks[l].authorId # u
          /\ Includes(fireLinks[l].voterIds, u)
          /\ ~isVotingState[u][l]

\* The pairs (user, link) whose vote has been counted, and those of the calls
\* in progress.
CountedPairs == {p \in UserIds \X LinkIds : counted[p[1]][p[2]] > 0}
PairsInProgress == {<<call.u, call.l>> : call \in InProgress}

\* Every vote let past the link lookup so far came from a registered user of
\* its own for its link, and none has been answered with an error: each is
\* counted or still in progress.
OneVoteEach ==
    /\ \A call \in InProgress : call.u \in Registered
    /\ Cardinality(CountedPairs) + BagCardinality(calls) = issued
    /\ Cardinality(PairsInProgress) = BagCardinality(calls)
    /\ CountedPairs \cap PairsInProgress = {}
    /\ \A p \in CountedPairs : counted[p[1]][p[2]] = 1

ProviderSettled ==
    /\ provider.mounted
    /\ AuthCalls(provider) = 0
    /\ ~provider.effect

\* The step just taken ended a call of login or register.
CallEnded ==
    /\ provider.mounted
    /\ provider.did \in {"loginResolved", "loginRejected",
                         "registerResolved", "registerRejected"}

\* C27: in an AuthProvider, the step that ends a login or register call,
\* with a token or with an error, leaves loading false, and loading never
\* stays true for ever; in a settled state a user that is not null comes
\* with a token that is not null; right after logout the token and the user
\* are null and isAuthenticated is false.
C27_ProviderSettles ==
    /\ [](CallEnded => ~provider.loading)
    /\ [](ProviderSettled =>
            (provider.user # NoPayload => provider.token # NoToken))
    /\ []((provider.mounted /\ provider.did = "logout") =>
            /\ provider.token = NoToken
            /\ provider.user = NoPayload
            /\ ~IsAuthenticated(provider))
    /\ ((provider.mounted /\ provider.loading) ~>
            (provider.mounted /\ ~provider.loading))

\* a register call of a user who is logged in has just failed: no call is
\* in progress, loading is false again, the user and the token are there
C27_Witness ==
    /\ ProviderSettled
    /\ provider.did = "registerRejected"
    /\ ~provider.loading
    /\ IsAuthenticated(provider)
    /\ provider.token \in ServerTokens

====
